---- MODULE Spec2Model ----
(***************************************************************************)
(* Model of the multi-GPU nearest-neighbour notebook                       *)
(* (multi-gpu-threading-rmm-numba.ipynb): the dispatcher get_nearest, the  *)
(* thread function _get_nearest_multi, the per-device job queues and the   *)
(* two-kernel pipeline block_min_reduce -> global_min_reduce.              *)
(*                                                                         *)
(* Python indices are 0-based; TLA+ sequences are 1-based, so element i of *)
(* a Python array is element i+1 of the sequence that models it.           *)
(***************************************************************************)
EXTENDS Integers, Sequences, FiniteSets, TLC

\* ---------------------------------------------------------------- bounds
MaxObs == 3        \* longest observation set of the concurrent model
MaxRef == 2        \* longest reference set
MaxGpus == 2       \* devices of the machine in the concurrent model
NumPoints == 3     \* points of the discrete great circle the data is drawn from
DMaxObs == 8       \* longest observation set of the dispatcher-only model
DMaxGpus == 4      \* most devices of the dispatcher-only model
MaxTieRef == 34    \* longest reference set of the tie-break model (more than B)
MaxTieObs == 2     \* longest observation set of the tie-break model

\* ------------------------------------------------------ program constants
B == 32            \* columns of d_block_idx / d_block_dist
RefSeed == 1       \* generate_geos(N_REF, random_state=1)
ObsSeed == 2       \* generate_geos(N_OBS, random_state=2)

Uninit == -1       \* content of a cuda.device_array slot nobody wrote yet
Inf == 1000        \* a distance larger than every distance of the circle
NoJob == [start |-> -1, end |-> -1]

Points == 0 .. (NumPoints - 1)

Abs(x) == IF x < 0 THEN -x ELSE x
Min(a, b) == IF a < b THEN a ELSE b
Max(a, b) == IF a > b THEN a ELSE b

\* Python's int(a / b) for integers a, b with b # 0: true division, then
\* truncation toward zero (exact below 2^53).
TruncDiv(a, b) ==
  IF (a >= 0) = (b > 0) THEN Abs(a) \div Abs(b) ELSE -(Abs(a) \div Abs(b))

\* ------------------------------------------------------------- data sets
\* src.simulator is not part of the sources. generate_geos(n, random_state) is a
\* reproducible set of n points (spec 6): here point i (0-based) of the set
\* with seed s is (s * i) mod NumPoints.
generate_geos(n, random_state) ==
  [i \in 1 .. n |-> (random_state * (i - 1)) % NumPoints]

\* spec 8, tie-break determinism: a reference set of n points in which the
\* points of index a and b (0-based) are point 0 and every other point is
\* point 1, so that a and b are at equal distance from every observation.
TieRefs(n, a, b) == [i \in 1 .. n |-> IF i - 1 \in {a, b} THEN 0 ELSE 1]

\* --------------------------------------------------------------- kernels
\* src.solvers is not part of the sources; the kernels follow spec 4.1-4.3.

\* 4.1 DistanceKernel: great-circle distance, here on a circle of NumPoints
\* equally spaced points (non-negative, symmetric, zero on identical points).
Dist(p, q) == Min(Abs(p - q), NumPoints - Abs(p - q))

\* 4.2: unit u scans its share of the references (r = u, u + B, ...) and keeps
\* a running (distance, index) minimum under a strict less-than.
RECURSIVE UnitScan(_, _, _, _)
UnitScan(d_ref, o, r, best) ==
  IF r >= Len(d_ref) THEN best
  ELSE LET d == Dist(o, d_ref[r + 1])
       IN UnitScan(d_ref, o, r + B,
                   IF d < best.dist THEN [idx |-> r, dist |-> d] ELSE best)

\* 4.2 BlockReducer: one row of B candidates per observation of the slice.
block_min_reduce(d_ref, d_obs) ==
  [k \in 1 .. Len(d_obs) |->
     [u \in 1 .. B |-> UnitScan(d_ref, d_obs[k], u - 1, [idx |-> 0, dist |-> Inf])]]

\* 4.3: minimum over the B candidates of a row, strict less-than, in unit
\* order. The running minimum is bound to its value before the next step
\* (b ranges over a set of one element), so that the scan costs B steps also
\* where the action that runs it is tested for being enabled.
RECURSIVE RowScan(_, _, _)
RowScan(row, u, best) ==
  IF u > B THEN best
  ELSE CHOOSE m \in {RowScan(row, u + 1, b) :
                       b \in {IF row[u].dist < best.dist THEN row[u] ELSE best}} : TRUE

\* 4.3 GlobalReducer: one final (index, distance) pair per row.
global_min_reduce(d_block) ==
  [k \in 1 .. Len(d_block) |-> RowScan(d_block[k], 2, d_block[k][1])]

\* ----------------------------------------------------------------- state
VARIABLES
  args,        \* the call's arguments: obs_points, ref_points, batch_size, multigpu, n_gpus
  n_devs,      \* len(cuda.list_devices()): the devices of the machine
  pc,          \* where get_nearest (the calling thread) is
  err,         \* the exception get_nearest raised, "" when none
  out_idx,     \* the uint32 result array
  out_dist,    \* the float32 result array
  n_gpus,      \* locals of get_nearest
  batch_size,
  n_jobs,
  queues,      \* list of queue.Queue: [items, unfinished_tasks]
  qid,
  j,
  workers,     \* list of threading.Thread, each running _get_nearest_multi
  joined,      \* how many workers the join loop has joined
  writes,      \* history: how many times each output slot was written
  writers,     \* history: which threads wrote each output slot (0 = the caller)
  takers,      \* history: which workers called get() on each queue
  dones        \* history: the jobs marked done, per queue, in order

vars == <<args, n_devs, pc, err, out_idx, out_dist, n_gpus, batch_size, n_jobs,
          queues, qid, j, workers, joined, writes, writers, takers, dones>>

inputs == <<args, n_devs>>
locals == <<n_gpus, batch_size, n_jobs>>
hist == <<writes, writers, takers, dones>>

Auto == -99        \* the sentinel "auto" of batch_size and n_gpus

size == Len(args.obs_points)     \* obs_points.shape[0]

\* queue.Queue(): no items, no unfinished task.
EmptyQueue == [items |-> <<>>, unfinished_tasks |-> 0]

\* ------------------------------------------------- get_nearest: helpers
\* if n_gpus == "auto": n_gpus = len(cuda.list_devices())
ResolveGpus(arg) == IF arg = Auto THEN n_devs ELSE arg

\* the divisions of get_nearest that raise ZeroDivisionError
BatchDivByZero(arg, g) == arg = Auto /\ g = 0

\* mutant: the automatic batch size is rounded up
ResolveBatch_RoundUp(arg, sz, g) == IF arg = Auto THEN TruncDiv(sz + g - 1, g) ELSE arg

\* if batch_size == 'auto': batch_size = size/(n_gpus); batch_size = int(batch_size)
ResolveBatch(arg, sz, g) == IF arg = Auto THEN TruncDiv(sz, g) ELSE arg

JobsDivByZero(bs, sz) == Min(bs, sz) = 0

\* mutant: n_jobs = int(size / batch_size)
NJobs_NoMin(bs, sz) == TruncDiv(sz, bs)

\* n_jobs = int(size / min(batch_size, size))
NJobs(bs, sz) == TruncDiv(sz, Min(bs, sz))

\* mutant: the wrap-around comes one queue early
WrapQid_Early(q, nq) == IF q >= nq - 1 THEN 0 ELSE q

\* if qid >= len(queues): qid = 0
WrapQid(q, nq) == IF q >= nq THEN 0 ELSE q

\* mutant: every job but the first starts one observation early
JobStart_Overlap(jj, bs) == IF jj > 0 THEN jj * bs - 1 ELSE 0

\* start = j * batch_size
JobStart(jj, bs) == jj * bs

\* mutant: the last job does not absorb the remainder
JobEnd_NoRemainder(jj, nj, bs, sz) == (jj + 1) * bs

\* end = size for the last job, (j + 1) * batch_size otherwise
JobEnd(jj, nj, bs, sz) == IF jj = nj - 1 THEN sz ELSE (jj + 1) * bs

\* the job dictionary; d_m_ref, d_m_obs, d_m_out_idx and d_m_out_dist are
\* references to the shared arrays args.ref_points, args.obs_points, out_idx, out_dist
MakeJob(jj, nj, bs, sz) == [start |-> JobStart(jj, bs), end |-> JobEnd(jj, nj, bs, sz)]

\* mutant: a queue.LifoQueue, the newest job comes out first
Put_Lifo(q, job) == [items |-> <<job>> \o q.items,
                     unfinished_tasks |-> q.unfinished_tasks + 1]

\* Queue.put(job)
Put(q, job) == [items |-> Append(q.items, job),
                unfinished_tasks |-> q.unfinished_tasks + 1]

\* mutant: every thread is handed device 0
NewThread_Device0(i) ==
  [q |-> i, cid |-> 0, pc |-> "select", device |-> -1, binds |-> 0,
   job |-> NoJob, d_ref |-> <<>>, d_obs |-> <<>>, d_block |-> <<>>,
   stream |-> <<>>, launched |-> 0]

\* mutant: every thread is handed the first queue
NewThread_Queue0(i) ==
  [q |-> 0, cid |-> i, pc |-> "select", device |-> -1, binds |-> 0,
   job |-> NoJob, d_ref |-> <<>>, d_obs |-> <<>>, d_block |-> <<>>,
   stream |-> <<>>, launched |-> 0]

\* threading.Thread(target=_get_nearest_multi, args=[queues[qid], qid]) + start()
NewThread(i) ==
  [q |-> i, cid |-> i, pc |-> "select", device |-> -1, binds |-> 0,
   job |-> NoJob, d_ref |-> <<>>, d_obs |-> <<>>, d_block |-> <<>>,
   stream |-> <<>>, launched |-> 0]

\* mutant: join() returns at once
Terminated_NoWait(t) == TRUE

\* what Thread.join() waits for: the thread function returned or raised
Terminated(t) == t.pc \in {"exit", "dead"}

\* ------------------------------------------------- get_nearest: actions
\* out_idx = cuda.device_array(...); out_dist = cuda.device_array(...)
AllocOut ==
  /\ pc = "call"
  /\ out_idx' = [i \in 1 .. size |-> Uninit]
  /\ out_dist' = [i \in 1 .. size |-> Uninit]
  /\ writes' = [i \in 1 .. size |-> 0]
  /\ writers' = [i \in 1 .. size |-> {}]
  /\ pc' = IF args.multigpu THEN "resolve" ELSE "single"
  /\ UNCHANGED <<inputs, err, locals, queues, qid, j, workers, joined, takers, dones>>

\* mutant: the second kernel is never launched and the result is taken from
\* the first column of the scratch arrays
SingleDeviceResult_NoGlobal(ref_points, obs_points) ==
  [k \in 1 .. Len(obs_points) |-> block_min_reduce(ref_points, obs_points)[k][1]]

\* the single-device kernel pair: block_min_reduce(ref_points, obs_points,
\* d_block_idx, d_block_dist), then global_min_reduce into out_dist, out_idx
SingleDeviceResult(ref_points, obs_points) ==
  global_min_reduce(block_min_reduce(ref_points, obs_points))

\* if not multigpu: both kernels over the whole observation set, synchronize, return
SingleDevice ==
  /\ pc = "single"
  /\ LET res == SingleDeviceResult(args.ref_points, args.obs_points)
     IN /\ out_idx' = [i \in 1 .. size |-> res[i].idx]
        /\ out_dist' = [i \in 1 .. size |-> res[i].dist]
  /\ writes' = [i \in 1 .. size |-> writes[i] + 1]
  /\ writers' = [i \in 1 .. size |-> writers[i] \cup {0}]
  /\ pc' = "returned"
  /\ UNCHANGED <<inputs, err, locals, queues, qid, j, workers, joined, takers, dones>>

\* n_gpus, size, batch_size, n_jobs, queues, qid = 0
Resolve ==
  /\ pc = "resolve"
  /\ LET g == ResolveGpus(args.n_gpus)
     IN /\ ~BatchDivByZero(args.batch_size, g)
        /\ LET bs == ResolveBatch(args.batch_size, size, g)
           IN /\ ~JobsDivByZero(bs, size)
              /\ n_gpus' = g
              /\ batch_size' = bs
              /\ n_jobs' = NJobs(bs, size)
              /\ queues' = [i \in 1 .. g |-> EmptyQueue]
              /\ takers' = [i \in 1 .. g |-> {}]
              /\ dones' = [i \in 1 .. g |-> <<>>]
  /\ qid' = 0
  /\ j' = 0
  /\ pc' = "enqueue"
  /\ UNCHANGED <<inputs, err, out_idx, out_dist, workers, joined, writes, writers>>

\* size/(n_gpus) or size / min(batch_size, size) divides by zero
ResolveRaise ==
  /\ pc = "resolve"
  /\ LET g == ResolveGpus(args.n_gpus)
     IN \/ BatchDivByZero(args.batch_size, g)
        \/ /\ ~BatchDivByZero(args.batch_size, g)
           /\ JobsDivByZero(ResolveBatch(args.batch_size, size, g), size)
  /\ pc' = "raised"
  /\ err' = "ZeroDivisionError"
  /\ UNCHANGED <<inputs, out_idx, out_dist, locals, queues, qid, j, workers, joined, hist>>

\* one iteration of: for j in range(n_jobs)
Enqueue ==
  /\ pc = "enqueue"
  /\ j < n_jobs
  /\ LET q == WrapQid(qid, Len(queues))
     IN /\ q < Len(queues)
        /\ queues' = [queues EXCEPT ![q + 1] =
                        Put(@, MakeJob(j, n_jobs, batch_size, size))]
        /\ qid' = q + 1
  /\ j' = j + 1
  /\ UNCHANGED <<inputs, pc, err, out_idx, out_dist, locals, workers, joined, hist>>

\* queues[qid] on an empty list of queues
EnqueueRaise ==
  /\ pc = "enqueue"
  /\ j < n_jobs
  /\ WrapQid(qid, Len(queues)) >= Len(queues)
  /\ pc' = "raised"
  /\ err' = "IndexError"
  /\ UNCHANGED <<inputs, out_idx, out_dist, locals, queues, qid, j, workers, joined, hist>>

\* mutant: the job loop is left after its first iteration
EnqueueDone_Early ==
  /\ pc = "enqueue"
  /\ j >= 1
  /\ workers' = <<>>
  /\ pc' = "start"
  /\ UNCHANGED <<inputs, err, out_idx, out_dist, locals, queues, qid, j, joined, hist>>

\* the job loop is over: workers = []
EnqueueDone ==
  /\ pc = "enqueue"
  /\ j >= n_jobs
  /\ workers' = <<>>
  /\ pc' = "start"
  /\ UNCHANGED <<inputs, err, out_idx, out_dist, locals, queues, qid, j, joined, hist>>

\* one iteration of: for qid in range(len(queues)): Thread(...).start(); append
StartWorker ==
  /\ pc = "start"
  /\ Len(workers) < Len(queues)
  /\ qid' = Len(workers)
  /\ workers' = Append(workers, NewThread(Len(workers)))
  /\ UNCHANGED <<inputs, pc, err, out_idx, out_dist, locals, queues, j, joined, hist>>

\* every queue has its worker: on to the join loop
StartDone ==
  /\ pc = "start"
  /\ Len(workers) = Len(queues)
  /\ joined' = 0
  /\ pc' = "join"
  /\ UNCHANGED <<inputs, err, out_idx, out_dist, locals, queues, qid, j, workers, hist>>

\* one iteration of: for w in workers: w.join()
Join ==
  /\ pc = "join"
  /\ joined < Len(workers)
  /\ Terminated(workers[joined + 1])
  /\ joined' = joined + 1
  /\ UNCHANGED <<inputs, pc, err, out_idx, out_dist, locals, queues, qid, j, workers, hist>>

\* return out_idx, out_dist
Return ==
  /\ pc = "join"
  /\ joined = Len(workers)
  /\ pc' = "returned"
  /\ UNCHANGED <<inputs, err, out_idx, out_dist, locals, queues, qid, j, workers, joined, hist>>

\* -------------------------------------------- _get_nearest_multi: helpers
W == 1 .. Len(workers)

\* cuda.select_device(cid) succeeds for the devices the machine has
CanSelect(cid) == cid \in 0 .. (n_devs - 1)

\* mutant: while True
LoopCond_Always(q) == TRUE

\* while(q.unfinished_tasks > 0)
LoopCond(q) == q.unfinished_tasks > 0

\* mutant: the slice is taken from the front of the array
Slice_FromZero(a, s, e) == [k \in 1 .. Max(0, Min(e, Len(a)) - s) |-> a[k]]

\* a[s:e] for 0 <= s, 0 <= e: Python clamps the slice to the array
Slice(a, s, e) == [k \in 1 .. Max(0, Min(e, Len(a)) - s) |-> a[s + k]]

\* cuda.device_array((end - start, 32)): rows of B unwritten candidates
Scratch(job) ==
  [k \in 1 .. (job.end - job.start) |-> [u \in 1 .. B |-> [idx |-> Uninit, dist |-> Uninit]]]

\* mutant: the rows are written through the whole array, not the view
WriteView_NoOffset(arr, start, end, vals) ==
  [i \in 1 .. Len(arr) |-> IF i <= Len(vals) THEN vals[i] ELSE arr[i]]

\* the kernel writes row k of its result through the view arr[start:end],
\* that is into arr[start + k]
WriteView(arr, start, end, vals) ==
  [i \in 1 .. Len(arr) |->
     IF start < i /\ i <= end /\ i - start <= Len(vals) THEN vals[i - start] ELSE arr[i]]

\* the output slots (1-based) a launch of global_min_reduce writes
ViewSlots(len, start, end, rows) ==
  {i \in 1 .. len : start < i /\ i <= end /\ i - start <= rows}

SetWorker(w, t) == [workers EXCEPT ![w] = t]

\* -------------------------------------------- _get_nearest_multi: actions
\* cuda.select_device(cid)
SelectDevice(w) ==
  /\ workers[w].pc = "select"
  /\ CanSelect(workers[w].cid)
  /\ workers' = SetWorker(w, [workers[w] EXCEPT !.device = workers[w].cid,
                                                !.binds = @ + 1,
                                                !.pc = "loop"])
  /\ UNCHANGED <<inputs, pc, err, out_idx, out_dist, locals, queues, qid, j, joined, hist>>

\* the loop test; a false test ends the thread function
LoopTest(w) ==
  /\ workers[w].pc = "loop"
  /\ workers' = SetWorker(w, [workers[w] EXCEPT !.pc =
                    IF LoopCond(queues[workers[w].q + 1]) THEN "get" ELSE "exit"])
  /\ UNCHANGED <<inputs, pc, err, out_idx, out_dist, locals, queues, qid, j, joined, hist>>

\* job = q.get(): blocks while the queue holds no item
Get(w) ==
  /\ workers[w].pc = "get"
  /\ LET q == workers[w].q + 1
     IN /\ queues[q].items # <<>>
        /\ workers' = SetWorker(w, [workers[w] EXCEPT !.job = Head(queues[q].items),
                                                      !.pc = "to_device"])
        /\ queues' = [queues EXCEPT ![q].items = Tail(@)]
        /\ takers' = [takers EXCEPT ![q] = @ \cup {w}]
  /\ UNCHANGED <<inputs, pc, err, out_idx, out_dist, locals, qid, j, joined,
                 writes, writers, dones>>

\* d_ref, d_obs = cuda.to_device(...); d_block_idx, d_block_dist = cuda.device_array(...)
ToDevice(w) ==
  /\ workers[w].pc = "to_device"
  /\ LET job == workers[w].job
     IN workers' = SetWorker(w, [workers[w] EXCEPT
                      !.d_ref = args.ref_points,
                      !.d_obs = Slice(args.obs_points, job.start, job.end),
                      !.d_block = Scratch(job),
                      !.pc = "block"])
  /\ UNCHANGED <<inputs, pc, err, out_idx, out_dist, locals, queues, qid, j, joined, hist>>

\* block_min_reduce[bpg, tpb](d_ref, d_obs, d_block_idx, d_block_dist): the
\* launch queues the kernel on the device and returns
LaunchBlock(w) ==
  /\ workers[w].pc = "block"
  /\ workers' = SetWorker(w, [workers[w] EXCEPT
                   !.stream = Append(@, [kernel |-> "block", start |-> 0, end |-> 0]),
                   !.launched = @ + 1,
                   !.pc = "global"])
  /\ UNCHANGED <<inputs, pc, err, out_idx, out_dist, locals, queues, qid, j, joined, hist>>

\* mutant: the output views are out_dist[:end] and out_idx[:end]
LaunchGlobal_FromZero(w) ==
  /\ workers[w].pc = "global"
  /\ workers' = SetWorker(w, [workers[w] EXCEPT
                   !.stream = Append(@, [kernel |-> "global",
                                         start |-> 0,
                                         end |-> workers[w].job.end]),
                   !.launched = @ + 1,
                   !.pc = "sync"])
  /\ UNCHANGED <<inputs, pc, err, out_idx, out_dist, locals, queues, qid, j, joined, hist>>

\* global_min_reduce[bpg, tpb](d_block_dist, d_block_idx,
\*     out_dist[start:end], out_idx[start:end])
LaunchGlobal(w) ==
  /\ workers[w].pc = "global"
  /\ workers' = SetWorker(w, [workers[w] EXCEPT
                   !.stream = Append(@, [kernel |-> "global",
                                         start |-> workers[w].job.start,
                                         end |-> workers[w].job.end]),
                   !.launched = @ + 1,
                   !.pc = "sync"])
  /\ UNCHANGED <<inputs, pc, err, out_idx, out_dist, locals, queues, qid, j, joined, hist>>

\* the device runs the oldest kernel of the worker's stream
DeviceRun(w) ==
  /\ workers[w].stream # <<>>
  /\ LET k == Head(workers[w].stream)
         t == [workers[w] EXCEPT !.stream = Tail(@)]
     IN IF k.kernel = "block"
        THEN /\ workers' = SetWorker(w, [t EXCEPT !.d_block =
                               block_min_reduce(t.d_ref, t.d_obs)])
             /\ UNCHANGED <<out_idx, out_dist, writes, writers>>
        ELSE \E res \in {global_min_reduce(t.d_block)} :
             LET slots == ViewSlots(Len(out_idx), k.start, k.end, Len(res))
             IN /\ workers' = SetWorker(w, t)
                /\ out_idx' = WriteView(out_idx, k.start, k.end,
                                        [r \in 1 .. Len(res) |-> res[r].idx])
                /\ out_dist' = WriteView(out_dist, k.start, k.end,
                                         [r \in 1 .. Len(res) |-> res[r].dist])
                /\ writes' = [i \in 1 .. Len(out_idx) |->
                                IF i \in slots THEN writes[i] + 1 ELSE writes[i]]
                /\ writers' = [i \in 1 .. Len(out_idx) |->
                                 IF i \in slots THEN writers[i] \cup {w} ELSE writers[i]]
  /\ UNCHANGED <<inputs, pc, err, locals, queues, qid, j, joined, takers, dones>>

\* mutant: the thread does not wait for the device
Synchronize_NoWait(w) ==
  /\ workers[w].pc = "sync"
  /\ workers' = SetWorker(w, [workers[w] EXCEPT !.pc = "task_done"])
  /\ UNCHANGED <<inputs, pc, err, out_idx, out_dist, locals, queues, qid, j, joined, hist>>

\* cuda.synchronize(): returns once the device has run every launched kernel
Synchronize(w) ==
  /\ workers[w].pc = "sync"
  /\ workers[w].stream = <<>>
  /\ workers' = SetWorker(w, [workers[w] EXCEPT !.pc = "task_done"])
  /\ UNCHANGED <<inputs, pc, err, out_idx, out_dist, locals, queues, qid, j, joined, hist>>

\* mutant: the job is never marked done
TaskDone_Missing(w) ==
  /\ workers[w].pc = "task_done"
  /\ workers' = SetWorker(w, [workers[w] EXCEPT !.pc = "loop"])
  /\ UNCHANGED <<inputs, pc, err, out_idx, out_dist, locals, queues, qid, j, joined, hist>>

\* q.task_done()
TaskDone(w) ==
  /\ workers[w].pc = "task_done"
  /\ LET q == workers[w].q + 1
     IN /\ queues' = [queues EXCEPT ![q].unfinished_tasks = @ - 1]
        /\ dones' = [dones EXCEPT ![q] = Append(@, workers[w].job)]
  /\ workers' = SetWorker(w, [workers[w] EXCEPT !.pc = "loop"])
  /\ UNCHANGED <<inputs, pc, err, out_idx, out_dist, locals, qid, j, joined,
                 writes, writers, takers>>

\* cuda.select_device raises (no such device, or the device cannot be bound):
\* the exception ends the thread; nothing catches it or hands it to the caller
SelectDeviceFail(w) ==
  /\ workers[w].pc = "select"
  /\ workers' = SetWorker(w, [workers[w] EXCEPT !.pc = "dead"])
  /\ UNCHANGED <<inputs, pc, err, out_idx, out_dist, locals, queues, qid, j, joined, hist>>

\* a copy, an allocation, a kernel launch or cuda.synchronize raises: the
\* exception ends the thread and the kernels still queued never run
DeviceFail(w) ==
  /\ workers[w].pc \in {"to_device", "block", "global", "sync"}
  /\ workers' = SetWorker(w, [workers[w] EXCEPT !.pc = "dead", !.stream = <<>>])
  /\ UNCHANGED <<inputs, pc, err, out_idx, out_dist, locals, queues, qid, j, joined, hist>>

\* ------------------------------------------------------- specifications
InitLocals ==
  /\ pc = "call"
  /\ err = ""
  /\ out_idx = <<>>
  /\ out_dist = <<>>
  /\ n_gpus = 0
  /\ batch_size = 0
  /\ n_jobs = 0
  /\ queues = <<>>
  /\ qid = 0
  /\ j = 0
  /\ workers = <<>>
  /\ joined = 0
  /\ writes = <<>>
  /\ writers = <<>>
  /\ takers = <<>>
  /\ dones = <<>>

\* The calls of the notebook's shape: generated sets, every mode.
Calls(obs_sizes, ref_sizes, batch_sizes, modes, gpu_counts) ==
  [obs_points : {generate_geos(n, ObsSeed) : n \in obs_sizes},
   ref_points : {generate_geos(n, RefSeed) : n \in ref_sizes},
   batch_size : batch_sizes,
   multigpu : modes,
   n_gpus : gpu_counts]

\* A call that meets the preconditions of get_nearest on a machine of MaxGpus
\* devices: non-empty sets, a positive batch size or "auto", a device count
\* the machine has or "auto".
Init ==
  /\ n_devs = MaxGpus
  /\ args \in Calls(1 .. MaxObs, 1 .. MaxRef, {Auto} \cup (1 .. (MaxObs + 1)),
                    BOOLEAN, {Auto} \cup (1 .. n_devs))
  /\ InitLocals

Dispatcher ==
  \/ AllocOut
  \/ SingleDevice
  \/ Resolve
  \/ ResolveRaise
  \/ Enqueue
  \/ EnqueueDone
  \/ StartWorker
  \/ StartDone
  \/ Join
  \/ Return

Next ==
  \/ Dispatcher
  \/ \E w \in W : SelectDevice(w)
  \/ \E w \in W : LoopTest(w)
  \/ \E w \in W : Get(w)
  \/ \E w \in W : ToDevice(w)
  \/ \E w \in W : LaunchBlock(w)
  \/ \E w \in W : LaunchGlobal(w)
  \/ \E w \in W : DeviceRun(w)
  \/ \E w \in W : Synchronize(w)
  \/ \E w \in W : TaskDone(w)

Spec == Init /\ [][Next]_vars

\* The steps of worker thread w, and of the device serving its stream.
Thread(w) ==
  /\ w \in W
  /\ \/ SelectDevice(w)
     \/ LoopTest(w)
     \/ Get(w)
     \/ ToDevice(w)
     \/ LaunchBlock(w)
     \/ LaunchGlobal(w)
     \/ Synchronize(w)
     \/ TaskDone(w)

Device(w) == w \in W /\ DeviceRun(w)

\* The calling thread and every worker thread keep being scheduled, and a
\* device completes every kernel launched on it.
Fairness ==
  /\ WF_vars(Dispatcher)
  /\ \A w \in 1 .. MaxGpus : WF_vars(Thread(w)) /\ WF_vars(Device(w))

\* The calls of Init on a reference set of one point: which points the
\* sets hold has no part in whether the threads end.
LiveInit ==
  /\ n_devs = MaxGpus
  /\ args \in Calls(1 .. MaxObs, {1}, {Auto} \cup (1 .. (MaxObs + 1)),
                    BOOLEAN, {Auto} \cup (1 .. n_devs))
  /\ InitLocals

LiveSpec == LiveInit /\ [][Next]_vars /\ Fairness

\* The dispatcher alone, up to the point where the job loop is over, for
\* larger observation sets and machines: multi-device calls that meet the
\* preconditions.
DispatchInit ==
  /\ n_devs \in 1 .. DMaxGpus
  /\ args \in Calls(1 .. DMaxObs, {1}, {Auto} \cup (1 .. (DMaxObs + 1)),
                    {TRUE}, {Auto} \cup (1 .. n_devs))
  /\ InitLocals

DispatchNext ==
  \/ AllocOut
  \/ Resolve
  \/ ResolveRaise
  \/ Enqueue
  \/ EnqueueDone

DispatchSpec == DispatchInit /\ [][DispatchNext]_vars

\* Every call, valid or not (empty sets, batch sizes and device counts that
\* are zero, negative or more than the machine has), on devices that may fail.
EnvInit ==
  /\ n_devs = MaxGpus
  /\ args \in Calls(0 .. MaxObs, 0 .. MaxRef, {Auto} \cup (-1 .. (MaxObs + 1)),
                    BOOLEAN, {Auto} \cup (-1 .. (n_devs + 1)))
  /\ InitLocals

EnvNext ==
  \/ Next
  \/ EnqueueRaise
  \/ \E w \in W : SelectDeviceFail(w)
  \/ \E w \in W : DeviceFail(w)

EnvSpec == EnvInit /\ [][EnvNext]_vars

\* The two kernels on reference sets of B points and of more than B points
\* that hold two points (or one) at minimal distance from an observation:
\* every place of the second point, through the single-device path and the
\* multi-device path on one device with every batch size; and the reference
\* set whose tied points are index 1 and index B, through the multi-device
\* path on every device of the machine.
TieSets ==
  {TieRefs(n, a, b) : n \in {B, MaxTieRef}, a \in 0 .. 1, b \in 0 .. (MaxTieRef - 1)}

KernelInit ==
  /\ n_devs = MaxGpus
  /\ \/ args \in [obs_points : {generate_geos(n, ObsSeed) : n \in 1 .. MaxTieObs},
                  ref_points : TieSets,
                  batch_size : {Auto} \cup (1 .. MaxTieObs),
                  multigpu : BOOLEAN,
                  n_gpus : {1}]
     \/ args \in [obs_points : {generate_geos(n, ObsSeed) : n \in 1 .. MaxTieObs},
                  ref_points : {TieRefs(MaxTieRef, 1, B)},
                  batch_size : {Auto, 1},
                  multigpu : {TRUE},
                  n_gpus : {Auto}]
  /\ InitLocals

KernelSpec == KernelInit /\ [][Next]_vars

\* ================================================================ claims
\* the jobs waiting in the queues, each with its queue and its position
Enqueued ==
  UNION {{<<q, k>> : k \in 1 .. Len(queues[q].items)} : q \in 1 .. Len(queues)}

JobAt(p) == queues[p[1]].items[p[2]]

\* the jobs whose range [start, end) holds observation i (0-based)
Holding(i) == {p \in Enqueued : JobAt(p).start <= i /\ i < JobAt(p).end}

\* C1: once get_nearest has enqueued its jobs (batch size resolved to S >= 1),
\* the job ranges of all queues partition [0, N_OBS): each observation index
\* lies in exactly one range and no range leaves [0, N_OBS).
C1_Partition ==
  (pc = "start" /\ workers = <<>> /\ batch_size >= 1) =>
    /\ \A i \in 0 .. size - 1 : Cardinality(Holding(i)) = 1
    /\ \A p \in Enqueued : 0 <= JobAt(p).start /\ JobAt(p).end <= size

\* C1 witness: all jobs enqueued for an N_OBS that is a multiple neither of
\* the batch size nor of the device count, with several jobs.
C1_Witness ==
  /\ pc = "start"
  /\ workers = <<>>
  /\ n_jobs >= 2
  /\ size % batch_size # 0
  /\ size % n_gpus # 0

\* how many of the first n jobs round-robin puts on queue q (0-based)
Share(n, g, q) == Cardinality({jj \in 0 .. n - 1 : jj % g = q})

\* C9: get_nearest creates exactly G queues; of the jobs enqueued so far, job
\* j sits on queue j mod G (at position j div G) and on no other queue, so
\* any two queue lengths differ by at most one.
C9_RoundRobin ==
  (pc \in {"enqueue", "start"} /\ workers = <<>>) =>
    /\ Len(queues) = ResolveGpus(args.n_gpus)
    /\ \A q \in 1 .. Len(queues) :
         /\ Len(queues[q].items) = Share(j, Len(queues), q - 1)
         /\ queues[q].unfinished_tasks = Len(queues[q].items)
         /\ \A k \in 1 .. Len(queues[q].items) :
              queues[q].items[k].start = ((k - 1) * Len(queues) + (q - 1)) * batch_size
    /\ \A q1, q2 \in 1 .. Len(queues) :
         Len(queues[q1].items) - Len(queues[q2].items) \in {-1, 0, 1}

\* C9 witness: the job loop is over with more jobs than queues, at least two
\* queues and queues of unequal length.
C9_Witness ==
  /\ pc = "start"
  /\ workers = <<>>
  /\ n_gpus >= 2
  /\ n_jobs > n_gpus
  /\ n_jobs % n_gpus # 0

Slots == DOMAIN writes

\* C2: in a multi-device call no output slot is ever written twice and no
\* two threads ever write the same slot, whatever the interleaving; when the
\* call returns every slot has been written exactly once.
C2_WrittenOnce ==
  args.multigpu =>
    \A i \in Slots :
      /\ writes[i] <= 1
      /\ Cardinality(writers[i]) <= 1
      /\ writers[i] \subseteq W
      /\ pc = "returned" => writes[i] = 1

\* C2 witness: a multi-device call has returned with slots written by two
\* different workers.
C2_Witness ==
  /\ args.multigpu
  /\ pc = "returned"
  /\ \E i, k \in Slots : writers[i] # {} /\ writers[k] # {} /\ writers[i] # writers[k]

\* C3: when a multi-device call returns, one worker per queue was started
\* and every one of them has terminated, every queue is empty with no
\* unfinished task, every enqueued job has been marked done, and every slot
\* of the result arrays has been written.
C3_ReturnAfterAll ==
  (args.multigpu /\ pc = "returned") =>
    /\ Len(workers) = Len(queues)
    /\ \A w \in W : workers[w].pc = "exit" /\ workers[w].stream = <<>>
    /\ \A q \in 1 .. Len(queues) :
         /\ queues[q].items = <<>>
         /\ queues[q].unfinished_tasks = 0
         /\ Len(dones[q]) = Share(n_jobs, Len(queues), q - 1)
    /\ \A i \in Slots : writes[i] >= 1 /\ out_idx[i] # Uninit /\ out_dist[i] # Uninit
    /\ Slots = 1 .. size

\* C3 witness: a multi-device call with several workers and several jobs has
\* returned.
C3_Witness ==
  /\ args.multigpu
  /\ pc = "returned"
  /\ Len(workers) >= 2
  /\ n_jobs > Len(workers)

\* what the kernel pair yields for one observation against the whole
\* reference set
NearestOf(o) == SingleDeviceResult(args.ref_points, <<o>>)[1]

\* C4: when a multi-device call returns, slot i holds the nearest-reference
\* result of observation i against the whole reference set: a global
\* reference index whose distance to the observation is the stored distance
\* and is minimal, equal to what the kernel pair yields for that observation.
C4_Postcondition ==
  (args.multigpu /\ pc = "returned") =>
    \A i \in 1 .. size :
      /\ out_idx[i] \in 0 .. Len(args.ref_points) - 1
      /\ out_dist[i] = Dist(args.obs_points[i], args.ref_points[out_idx[i] + 1])
      /\ \A r \in 1 .. Len(args.ref_points) :
           out_dist[i] <= Dist(args.obs_points[i], args.ref_points[r])
      /\ out_idx[i] = NearestOf(args.obs_points[i]).idx
      /\ out_dist[i] = NearestOf(args.obs_points[i]).dist

\* C4 witness: a multi-device call of several jobs has returned results that
\* differ between observations, in index and in distance.
C4_Witness ==
  /\ args.multigpu
  /\ pc = "returned"
  /\ n_jobs >= 2
  /\ \E i, k \in 1 .. size : out_idx[i] # out_idx[k]
  /\ \E i, k \in 1 .. size : out_dist[i] # out_dist[k]

\* C5: a multi-device call returns, for every batch size, device count and
\* interleaving, the index and distance arrays the single-device path
\* returns on the same input; a single-device call returns them too.
C5_SameAsSingleDevice ==
  pc = "returned" =>
    LET res == SingleDeviceResult(args.ref_points, args.obs_points)
    IN /\ out_idx = [i \in 1 .. size |-> res[i].idx]
       /\ out_dist = [i \in 1 .. size |-> res[i].dist]

\* C5 witness: a multi-device call on two devices, with a job per device at
\* least and results that differ between observations, has returned.
C5_Witness ==
  /\ args.multigpu
  /\ pc = "returned"
  /\ n_gpus = 2
  /\ n_jobs >= 2
  /\ \E i, k \in 1 .. size : out_idx[i] # out_idx[k]

\* the preconditions of get_nearest (spec 6)
ValidCall ==
  /\ Len(args.obs_points) >= 1
  /\ Len(args.ref_points) >= 1
  /\ args.batch_size = Auto \/ args.batch_size >= 1
  /\ args.n_gpus = Auto \/ args.n_gpus \in 1 .. n_devs

\* C6: if a worker of a call that meets the preconditions suffers a fatal
\* condition (it cannot bind its device, or a copy, launch or synchronize
\* fails), get_nearest does not return a result: whenever it returns, no
\* worker has died and every output slot has been written.
C6_NoPartialReturn ==
  (ValidCall /\ args.multigpu /\ pc = "returned") =>
    /\ \A w \in W : workers[w].pc # "dead"
    /\ \A i \in Slots : writes[i] >= 1

\* an invalid configuration: batch size <= 0 (given, or "auto" resolving
\* below 1), a device count that is no positive number of available devices,
\* or an empty observation or reference set
InvalidConfig ==
  \/ args.batch_size # Auto /\ args.batch_size <= 0
  \/ args.n_gpus # Auto /\ args.n_gpus \notin 1 .. n_devs
  \/ Len(args.obs_points) = 0
  \/ Len(args.ref_points) = 0
  \/ /\ args.batch_size = Auto
     /\ ResolveGpus(args.n_gpus) >= 1
     /\ Len(args.obs_points) \div ResolveGpus(args.n_gpus) < 1

\* get_nearest is past its first statements: out_idx and out_dist have been
\* allocated on the device
BuffersAllocated == pc # "call"

\* C7: on an invalid configuration a multi-device call does no device work
\* and returns nothing: no buffer has been allocated on a device, no job
\* enqueued, no worker started, and the call has not returned a result.
C7_InvalidConfigRejected ==
  (InvalidConfig /\ args.multigpu) =>
    /\ ~BuffersAllocated
    /\ \A q \in 1 .. Len(queues) : queues[q].unfinished_tasks = 0
    /\ workers = <<>>
    /\ pc # "returned"

\* a multi-device call with fewer observations than devices
FewerObsThanGpus == args.multigpu /\ size < ResolveGpus(args.n_gpus)

\* the worker's queue never held a job
Jobless(w) == workers[w].q >= n_jobs

\* a complete, correct result has been returned
ReturnedComplete ==
  /\ \A i \in Slots : writes[i] = 1
  /\ Slots = 1 .. size
  /\ \A i \in 1 .. size :
       /\ out_idx[i] = NearestOf(args.obs_points[i]).idx
       /\ out_dist[i] = NearestOf(args.obs_points[i]).dist

\* the thread is blocked in q.get(): the queue holds no item
BlockedInGet(w) ==
  workers[w].pc = "get" /\ queues[workers[w].q + 1].items = <<>>

\* the call hangs: get_nearest waits in join() for a worker and every
\* worker still alive is blocked in q.get()
Hung ==
  /\ pc = "join"
  /\ joined < Len(workers)
  /\ ~Terminated(workers[joined + 1])
  /\ \A w \in W : Terminated(workers[w]) \/ BlockedInGet(w)

\* what C8 promises of a call that is running or has returned
C8_Holds ==
  /\ pc # "raised"
  /\ pc = "returned" => ReturnedComplete
  /\ \A w \in W : Jobless(w) =>
       /\ workers[w].pc \in {"select", "loop", "exit"}
       /\ workers[w].launched = 0
       /\ workers[w].stream = <<>>
  /\ ~Hung

\* C8 as stated: with N_OBS < G, automatic batch size included, the call
\* never raises, its jobless workers end after the loop test without
\* launching a kernel, it never hangs, and it returns a complete, correct
\* result.
C8_Original == FewerObsThanGpus => C8_Holds

\* C8 as amended: with N_OBS < G and an explicit batch size S >= 1 all of
\* that holds; with the automatic batch size the call never returns a
\* result nor creates a queue, job or worker: it ends raising
\* ZeroDivisionError.
C8_ExplicitBatch ==
  FewerObsThanGpus =>
    IF args.batch_size # Auto
    THEN C8_Holds
    ELSE /\ pc \in {"call", "resolve", "raised"}
         /\ pc = "raised" => err = "ZeroDivisionError"
         /\ queues = <<>>
         /\ workers = <<>>

\* C8 witness: a call with N_OBS < G and an explicit batch size has returned
\* and a worker whose queue never held a job has ended without a launch.
C8_Witness ==
  /\ FewerObsThanGpus
  /\ args.batch_size # Auto
  /\ pc = "returned"
  /\ \E w \in W : Jobless(w) /\ workers[w].pc = "exit" /\ workers[w].launched = 0
  /\ \E w \in W : ~Jobless(w) /\ workers[w].launched = 2

\* C10: worker number w is the only worker of queue w and the only thread
\* that dequeues from it; it selects device w, once, before it tests the
\* loop or dequeues, and stays bound to it, so workers that are bound are
\* bound to different devices.
C10_OneWorkerOneDevice ==
  /\ Len(workers) <= Len(queues)
  /\ pc \in {"join", "returned"} => Len(workers) = Len(queues)
  /\ \A w \in W :
       /\ workers[w].q = w - 1
       /\ workers[w].binds <= 1
       /\ workers[w].pc = "select" => (workers[w].binds = 0 /\ workers[w].device = -1)
       /\ workers[w].pc # "select" => (workers[w].binds = 1 /\ workers[w].device = w - 1)
  /\ \A q \in 1 .. Len(takers) :
       /\ takers[q] \subseteq {q}
       /\ takers[q] # {} => workers[q].binds = 1
  /\ \A w1, w2 \in W :
       (w1 # w2 /\ workers[w1].binds > 0 /\ workers[w2].binds > 0)
         => workers[w1].device # workers[w2].device

\* C10 witness: two workers are bound and each has dequeued from its queue.
C10_Witness ==
  /\ Len(workers) >= 2
  /\ \A w \in {1, 2} : workers[w].binds = 1 /\ takers[w] = {w}

\* the least element of a non-empty set of numbers
Least(S) == CHOOSE x \in S : \A y \in S : x <= y

\* the reference indices (0-based) at minimal distance from the observation
Tied(o) ==
  LET refs == 0 .. Len(args.ref_points) - 1
      least == Least({Dist(o, args.ref_points[r + 1]) : r \in refs})
  IN {r \in refs : Dist(o, args.ref_points[r + 1]) = least}

\* the lowest reference index among the tied points
LowestTied(o) == Least(Tied(o))

\* the lowest tied index of the lowest-numbered unit that scans a tied point
\* (unit u scans the references u, u + B, u + 2B, ...)
LowestTiedOfFirstUnit(o) ==
  LET tied == Tied(o)
      unit == Least({r % B : r \in tied})
  IN Least({r \in tied : r % B = unit})

InJob(w) == workers[w].pc \in {"to_device", "block", "global", "sync", "task_done"}

\* the job a queue's worker is processing, as a sequence of one or no job
InFlight(q) == IF q \in W /\ InJob(q) THEN <<workers[q].job>> ELSE <<>>

\* the jobs round-robin gives queue q (1-based), in job-index order:
\* q - 1, q - 1 + G, q - 1 + 2G, ...
JobsOf(q) ==
  [k \in 1 .. Share(n_jobs, Len(queues), q - 1) |->
     MakeJob((k - 1) * Len(queues) + (q - 1), n_jobs, batch_size, size)]

\* C12: once the jobs are enqueued, at every moment the jobs a queue's
\* worker has marked done, then the one it is processing, then the ones
\* still waiting are the jobs q, q + G, q + 2G, ... of that queue in
\* job-index order: each job is processed once, in enqueue order, and a job
\* is dequeued only when every earlier job of its queue is marked done.
C12_Fifo ==
  (args.multigpu /\ pc \in {"start", "join", "returned"}) =>
    \A q \in 1 .. Len(queues) :
      /\ dones[q] \o InFlight(q) \o queues[q].items = JobsOf(q)
      /\ queues[q].unfinished_tasks = Len(InFlight(q)) + Len(queues[q].items)

\* C12 witness: the first queue's worker has marked its two jobs (jobs 0
\* and 2) done, in that order, while job 1 still waits in the second queue:
\* no order between the queues.
C12_Witness ==
  /\ Len(queues) = 2
  /\ n_jobs = 3
  /\ Len(dones[1]) = 2
  /\ dones[1][1].start < dones[1][2].start
  /\ dones[2] = <<>>
  /\ Len(queues[2].items) = 1

\* the output slots (1-based) of a job
RangeOf(job) == (job.start + 1) .. job.end

\* both kernels of the job have run: its whole range has been written
Written(job) ==
  \A i \in RangeOf(job) : writes[i] = 1 /\ out_idx[i] # Uninit /\ out_dist[i] # Uninit

\* the kernels of a stream, oldest first
Kernels(stream) == [k \in 1 .. Len(stream) |-> stream[k].kernel]

\* C13: a worker goes through dequeue, mirrors and scratch, launch of
\* block_min_reduce, launch of global_min_reduce, synchronize, task_done in
\* that order for every job: where it is tells how many kernels it has
\* launched and which may still be pending on the device. When it is about
\* to mark a job done, and for every job marked done, the device has run
\* both kernels and the job's range is written; the unfinished-task count
\* is decremented for done jobs only.
C13_StepOrder ==
  \A w \in W :
    LET t == workers[w]
        nd == Len(dones[w])
    IN /\ queues[w].unfinished_tasks = Share(n_jobs, Len(queues), w - 1) - nd
       /\ \A k \in 1 .. nd : Written(dones[w][k])
       /\ t.pc \in {"select", "loop", "get", "exit", "to_device", "block"} =>
            (t.launched = 2 * nd /\ t.stream = <<>>)
       /\ t.pc = "block" =>
            (t.d_block = Scratch(t.job) /\ Len(t.d_obs) = t.job.end - t.job.start)
       /\ t.pc = "global" =>
            (t.launched = 2 * nd + 1 /\ Kernels(t.stream) \in {<<>>, <<"block">>})
       /\ t.pc = "sync" =>
            /\ t.launched = 2 * nd + 2
            /\ Kernels(t.stream) \in {<<>>, <<"global">>, <<"block", "global">>}
       /\ t.pc = "task_done" =>
            (t.launched = 2 * nd + 2 /\ t.stream = <<>> /\ Written(t.job))
       /\ (InJob(w) /\ t.stream # <<>>) => ~Written(t.job)

\* C13 witness: a worker is about to mark its second job done, both kernels
\* run, while another worker waits in synchronize with both of its kernels
\* still pending on the device.
C13_Witness ==
  \E w1, w2 \in W :
    /\ workers[w1].pc = "task_done"
    /\ Len(dones[w1]) = 1
    /\ workers[w1].launched = 4
    /\ workers[w2].pc = "sync"
    /\ Len(workers[w2].stream) = 2

\* a job has been created: the job loop has put one on a queue
JobCreated == j > 0

\* queue q changes in this step by its own worker's dequeue of its head,
\* and no other worker changes
OwnDequeue(q) ==
  /\ queues[q].items # <<>>
  /\ queues'[q].items = Tail(queues[q].items)
  /\ q \in W
  /\ workers[q].pc = "get"
  /\ workers'[q].job = Head(queues[q].items)
  /\ \A w \in W \ {q} : workers'[w] = workers[w]

\* what C14 says of one step of a multi-device call
C14_Step ==
  /\ JobCreated' => (BuffersAllocated' /\ Len(out_idx') = size' /\ Len(out_dist') = size')
  /\ workers' # <<>> => (j' = n_jobs' /\ pc' \in {"start", "join", "returned"})
  /\ workers # <<>> =>
       /\ Len(queues') = Len(queues)
       /\ j' = j
       /\ \A q \in 1 .. Len(queues) : queues'[q].items = queues[q].items \/ OwnDequeue(q)

\* C14: the result buffers are allocated before any job is created, all
\* jobs are enqueued before any worker is started, and once a worker has
\* been started every step leaves every queue's jobs as they are, except
\* that a queue's own worker takes the job at its head.
C14_EnqueueBeforeStart == [][C14_Step]_vars

\* C14 witness: the first worker has been started and has dequeued a job
\* while the second worker is not started yet and its job waits.
C14_Witness ==
  /\ pc = "start"
  /\ Len(queues) = 2
  /\ Len(workers) = 1
  /\ takers[1] = {1}
  /\ Len(queues[2].items) = 1

\* the worker's queue has no unfinished task and the worker is bound
Drained(w) == queues[w].unfinished_tasks = 0 /\ workers[w].pc # "select"

\* C15: a worker whose queue has no unfinished task is at the loop test or
\* has left the loop, with no kernel pending, and from then on it only
\* leaves the loop: no copy, allocation, launch or dequeue follows. If the
\* threads keep running and the devices complete their kernels, every call
\* that gets to start its workers returns, with every worker terminated.
C15_Termination ==
  /\ [](\A w \in W : Drained(w) =>
          /\ workers[w].pc \in {"loop", "exit"}
          /\ workers[w].stream = <<>>)
  /\ [][\A w \in W : Drained(w) =>
          /\ workers'[w] \in {workers[w], [workers[w] EXCEPT !.pc = "exit"]}
          /\ queues'[w] = queues[w]]_vars
  /\ (pc = "start") ~> (pc = "returned" /\ \A w \in W : workers[w].pc = "exit")

\* C15 witness: the call has returned after its two workers ended, one of
\* them having processed two jobs.
C15_Witness ==
  /\ pc = "returned"
  /\ Len(workers) = 2
  /\ \E w \in W : Len(dones[w]) = 2
  /\ \A w \in W : workers[w].pc = "exit" /\ Drained(w)

\* worker w, or the device on its behalf, takes this step for a job
StepOfJob(w) ==
  /\ workers'[w] # workers[w]
  /\ InJob(w) \/ workers[w].pc = "get"

\* what C16 says of one step
C16_Step ==
  \A w \in W :
    StepOfJob(w) =>
      /\ args' = args
      /\ Len(out_idx') = Len(out_idx) /\ Len(out_dist') = Len(out_dist)
      /\ \A i \in (1 .. Len(out_idx)) \ RangeOf(workers'[w].job) :
           out_idx'[i] = out_idx[i] /\ out_dist'[i] = out_dist[i]
      /\ \A q \in (1 .. Len(queues)) \ {w} : queues'[q] = queues[q]
      /\ \A w2 \in W \ {w} : workers'[w2] = workers[w2]

\* C16: every step of the processing of a job [start, end), from its dequeue
\* to its task_done, the kernels the device runs for it included, leaves the
\* observation set, the reference set, the output slots outside
\* start .. end-1, every other queue and every other worker's arrays as they
\* were.
C16_Frame == [][C16_Step]_vars

\* C16 witness: a job that does not start at 0 has been processed: its
\* range is written while a slot outside is still unwritten and another
\* worker is in the middle of its own job.
C16_Witness ==
  \E w, w2 \in W :
    /\ workers[w].pc = "task_done"
    /\ workers[w].job.start > 0
    /\ Written(workers[w].job)
    /\ \E i \in Slots \ RangeOf(workers[w].job) : writes[i] = 0 /\ out_idx[i] = Uninit
    /\ w2 # w
    /\ workers[w2].pc = "sync"

\* the queue worker w was handed
QueueOf(w) == queues[workers[w].q + 1]

\* C17: whenever a worker is at its loop test, the unfinished-task count of
\* its queue is the number of jobs waiting in it (none is dequeued and not
\* yet done), so whenever it is at q.get() the queue holds a job: the worker
\* never waits in q.get().
C17_GetNeverBlocks ==
  \A w \in W :
    /\ workers[w].pc = "loop" => QueueOf(w).unfinished_tasks = Len(QueueOf(w).items)
    /\ workers[w].pc = "get" => (QueueOf(w).items # <<>> /\ ~BlockedInGet(w))

\* C17 witness: a worker that has marked one job done is at q.get() again,
\* with the next job of its queue waiting.
C17_Witness ==
  \E w \in W :
    /\ workers[w].pc = "get"
    /\ Len(dones[w]) = 1
    /\ Len(QueueOf(w).items) = 1

\* C18: when the job loop of a call with the automatic batch size and
\* N_OBS >= G is over, the batch size is S = floor(N_OBS / G) >= 1, the job
\* count is J = floor(N_OBS / S) with G <= J <= 2G - 1, and every queue
\* holds one job or two.
C18_AutoJobCount ==
  (pc = "start" /\ args.batch_size = Auto /\ size >= n_gpus) =>
    /\ batch_size = size \div n_gpus
    /\ batch_size >= 1
    /\ n_jobs = size \div batch_size
    /\ n_gpus <= n_jobs /\ n_jobs <= 2 * n_gpus - 1
    /\ j = n_jobs
    /\ \A q \in 1 .. Len(queues) : Len(queues[q].items) \in {1, 2}

\* C18 witness: the automatic batch size with N_OBS = 7 and G = 4 gives 7
\* jobs, two on some queues and one on another.
C18_Witness ==
  /\ pc = "start"
  /\ args.batch_size = Auto
  /\ size = 7
  /\ n_gpus = 4
  /\ n_jobs = 7
  /\ \E q1, q2 \in 1 .. Len(queues) :
       Len(queues[q1].items) = 2 /\ Len(queues[q2].items) = 1

\* the number of observations of a job
JobLen(job) == job.end - job.start

\* the job is the last one the job loop created
IsLast(job) == job.start = (n_jobs - 1) * batch_size

\* C19: when the job loop of a call with N_OBS >= 1 and a resolved batch
\* size S >= 1 is over, J = floor(N_OBS / min(S, N_OBS)) >= 1 jobs are
\* enqueued, each non-empty and inside [0, N_OBS); every job but the last
\* has S observations; the last has S + (N_OBS mod S), between S and 2S - 1,
\* when S <= N_OBS, and is the single job [0, N_OBS) when S > N_OBS.
C19_JobSizes ==
  (pc = "start" /\ size >= 1 /\ batch_size >= 1) =>
    /\ n_jobs = size \div Min(batch_size, size)
    /\ n_jobs >= 1
    /\ Cardinality(Enqueued) = n_jobs
    /\ \E p \in Enqueued : IsLast(JobAt(p))
    /\ \A p \in Enqueued :
         LET job == JobAt(p)
         IN /\ 0 <= job.start /\ job.start < job.end /\ job.end <= size
            /\ ~IsLast(job) => JobLen(job) = batch_size
            /\ (IsLast(job) /\ batch_size <= size) =>
                 /\ JobLen(job) = batch_size + (size % batch_size)
                 /\ batch_size <= JobLen(job) /\ JobLen(job) <= 2 * batch_size - 1
            /\ (IsLast(job) /\ batch_size > size) =>
                 (n_jobs = 1 /\ job.start = 0 /\ job.end = size)

\* C19 witness: several jobs of S >= 2 observations are enqueued and the
\* last one has 2S - 1.
C19_Witness ==
  /\ pc = "start"
  /\ batch_size >= 2
  /\ n_jobs >= 2
  /\ \E p \in Enqueued : IsLast(JobAt(p)) /\ JobLen(JobAt(p)) = 2 * batch_size - 1
  /\ \E p \in Enqueued : ~IsLast(JobAt(p)) /\ JobLen(JobAt(p)) = batch_size
====
